---- MODULE Spec2Model ----
(***************************************************************************)
(* Model of src/urlbar.uc.js: the PanelManager of the page-controls popup. *)
(* The state is the PanelManager's fields, the rendered extension entries  *)
(* of #extension-container, the listeners it holds on the window and on    *)
(* the AddonManager, the asynchronous calls that are in flight, and the    *)
(* part of the host (installed add-ons, open menupopup, page identity)     *)
(* that the handlers read.                                                 *)
(***************************************************************************)
EXTENDS Integers, Sequences, FiniteSets, TLC

\* ------------------------------------------------------------------------
\* Bounds of the model
\* ------------------------------------------------------------------------

\* add-on queries (loadExtensions passes) that may be in flight at once
MaxPending == 2

\* asynchronous action handlers that may be suspended at an await at once
MaxTasks == 1

\* ------------------------------------------------------------------------
\* Values
\* ------------------------------------------------------------------------

NULL == "null"

\* ids of the extensions a user can install, and of the built-in ones
UserIds == {"e1", "e2"}

SystemIds == {"sys"}

\* extensions that declare a browser action (gUnifiedExtensions.browserActionFor)
WithAction == {"e1", "e3"}

\* elements showPanel may be anchored at
Anchors == {"button", "other"}

\* where a pointer-down may land
Targets == {"inPanel", "inButton", "inOther", "elsewhere"}

\* uri.scheme of gBrowser.currentURI, NULL when there is no current URI
Schemes == {"https", "http", "about", NULL}

ICON_DEFAULT == "info.svg"

ICON_ACTIVE == "shield-check.svg"

ICON_WARNING == "shield-exclamation.svg"

ICON_SECURE == "security.svg"

ICON_INSECURE == "lock-open.svg"

VARIABLES
  mainPopupSet,      \* #mainPopupSet exists in the document
  win,               \* what the initializer and DOM-ready have left in the window
  panel,             \* this.panel is set
  isOpen,            \* this.isOpen
  hidePopupCalled,   \* the last hidePanel() has called panel.hidePopup()
  lastAnchorButton,  \* this.lastAnchorButton
  boundOnGlobalPointerDown, \* this.boundOnGlobalPointerDown is set
  boundOnGlobalKeyDown,     \* this.boundOnGlobalKeyDown is set
  winListeners,      \* capture listeners on window, per event type
  addonListener,     \* this.addonListener is set
  amListeners,       \* listeners registered with AddonManager
  installed,         \* host: installed add-ons, in query order
  active,            \* host: ids of the active add-ons
  rendered,          \* children of #extension-container carrying data-extension-id
  extensionData,     \* keys of this.extensionData
  pending,           \* loadExtensions calls suspended at the add-on query
  tasks,             \* action handlers suspended at an await
  menu,              \* host: the menupopup that is open
  currentContextMenu,            \* this.currentContextMenu is set
  currentContextMenuExtensionId, \* this.currentContextMenuExtensionId
  extensionMenuListenersSetup,   \* this.extensionMenuListenersSetup
  extrasMenuListenersSetup,      \* this.extrasMenuListenersSetup
  page,              \* host: identity box attributes and scheme of the current page
  securityIcon,      \* src of #page-secutity-status-image
  showPc,            \* position inside showPanel
  last,              \* the handler that returned last, and how
  unloaded           \* the window has fired unload

vars == <<mainPopupSet, win, panel, isOpen, hidePopupCalled, lastAnchorButton, boundOnGlobalPointerDown,
          boundOnGlobalKeyDown, winListeners, addonListener, amListeners,
          installed, active, rendered, extensionData, pending, tasks, menu,
          currentContextMenu, currentContextMenuExtensionId,
          extensionMenuListenersSetup, extrasMenuListenersSetup, page,
          securityIcon, showPc, last, unloaded>>

\* ------------------------------------------------------------------------
\* Initialization
\* ------------------------------------------------------------------------

\* the window before the script has run; container: #page-action-buttons is
\* in the document
Fresh(container) ==
  [initialized |-> FALSE, managers |-> 0, unloadListeners |-> 0,
   domListeners |-> 0, container |-> container, modified |-> FALSE,
   buttons |-> 0, clickHandlers |-> 0]

\* the window once the script has run and DOM-ready has injected the button
Booted ==
  [initialized |-> TRUE, managers |-> 1, unloadListeners |-> 1,
   domListeners |-> 1, container |-> TRUE, modified |-> TRUE,
   buttons |-> 1, clickHandlers |-> 1]

\* initializeURLBarModifier without its 'already initialized' guard
initializeURLBarModifierUnguarded(w) ==
  [w EXCEPT !.initialized = TRUE, !.managers = @ + 1,
            !.unloadListeners = @ + 1, !.domListeners = @ + 1]

\* initializeURLBarModifier(): new PanelManager and setupEventListeners, once
initializeURLBarModifier(w) ==
  IF w.initialized THEN w
  ELSE [w EXCEPT !.initialized = TRUE, !.managers = @ + 1,
                 !.unloadListeners = @ + 1, !.domListeners = @ + 1]

\* setupPageActionButton that does not look at data-urlbar-modified
setupPageActionButtonUnmarked(w) ==
  IF ~w.container THEN w
  ELSE [w EXCEPT !.modified = TRUE, !.buttons = @ + 1, !.clickHandlers = @ + 1]

\* setupPageActionButton(panelManager): the button and its click handler
setupPageActionButton(w) ==
  IF ~w.container THEN w
  ELSE IF w.modified THEN w
  ELSE [w EXCEPT !.modified = TRUE, !.buttons = @ + 1, !.clickHandlers = @ + 1]

RECURSIVE dispatchDOMContentLoaded(_, _)
\* each of the n registered DOMContentLoaded listeners runs
dispatchDOMContentLoaded(w, n) ==
  IF n = 0 THEN w ELSE dispatchDOMContentLoaded(setupPageActionButton(w), n - 1)

\* ------------------------------------------------------------------------
\* Helpers
\* ------------------------------------------------------------------------

Range(s) == {s[i] : i \in 1..Len(s)}

RECURSIVE SelectIds(_, _)
\* the subsequence of s whose elements are in S
SelectIds(s, S) ==
  IF s = <<>> THEN <<>>
  ELSE IF Head(s) \in S THEN <<Head(s)>> \o SelectIds(Tail(s), S)
       ELSE SelectIds(Tail(s), S)

RemoveAt(s, i) == SubSeq(s, 1, i - 1) \o SubSeq(s, i + 1, Len(s))

\* node.contains(target) for the panel
PanelContains(target) == target = "inPanel"

\* a click on the anchor taken for an outside click
AnchorContainsNothing(anchor, target) == FALSE

\* anchor.contains(target) that knows the targets inside "other" only
AnchorContainsOther(anchor, target) == anchor = "other" /\ target = "inOther"

\* anchor.contains(target)
AnchorContains(anchor, target) ==
  \/ anchor = "button" /\ target = "inButton"
  \/ anchor = "other" /\ target = "inOther"

\* what a handler leaves behind when it returns
Ret(op, arg, res, threw) == [op |-> op, arg |-> arg, res |-> res, threw |-> threw]

\* ------------------------------------------------------------------------
\* Host: add-on manager and page identity
\* ------------------------------------------------------------------------

\* the document and the page as updateSecurityStatus reads them: the status
\* image and the identity box are there, the attributes of the box, the scheme
Pages == [img : BOOLEAN, box : BOOLEAN, sharing : BOOLEAN, perms : BOOLEAN,
          scheme : Schemes]

\* the pages the panel is opened on in the lifecycle specification: an https
\* page with and without an active sharing indicator
LifecyclePages == {pg \in Pages : pg.img /\ pg.box /\ ~pg.perms /\ pg.scheme = "https"}

\* the pages the action handlers are exercised on: an https page and an
\* about: page, which has no host and is not shareable
ActionPages == {pg \in Pages : pg.img /\ pg.box /\ ~pg.sharing /\ ~pg.perms
                               /\ pg.scheme \in {"https", "about"}}

\* addon.isSystem
isSystem(id) == id \in SystemIds

\* AddonManager.getAddonsByTypes(["extension"]): every installed extension
getAddonsByTypes == installed

\* AddonManager.getAddonByID(id) finds an add-on
getAddonByID(id) == id \in Range(installed)

\* WebExtensionPolicy.getByID(id): only a running extension has a policy
getByID(id) == id \in active

\* gUnifiedExtensions.browserActionFor(policy)
browserActionFor(id) == id \in WithAction

\* extensions for which the call of browserActionFor throws
ThrowingAction == {"e3"}

\* CONFIG.FALLBACK_ICON
FALLBACK_ICON == "extension.svg"

\* addon.iconURL: the icon the extension declares, NULL when it declares none
iconURL(id) ==
  CASE id = "e1" -> "e1.png"
    [] id = "e3" -> "e3.png"
    [] OTHER -> NULL

\* getExtensionIconSrc(addon)
getExtensionIconSrc(id) == IF iconURL(id) # NULL THEN iconURL(id) ELSE FALLBACK_ICON

\* getExtensionTooltip whose action lookup never throws
getExtensionTooltipNoCatch(id, isActive, hasPolicy) ==
  IF isActive /\ hasPolicy /\ browserActionFor(id)
  THEN <<"Open", id>>
  ELSE IF isActive THEN <<"Disable", id>> ELSE <<"Enable", id>>

\* getExtensionTooltip(addon): the verb and the name of the tooltip; isActive
\* is addon.isActive, hasPolicy whether WebExtensionPolicy.getByID finds one
getExtensionTooltip(id, isActive, hasPolicy) ==
  IF isActive /\ hasPolicy /\ id \notin ThrowingAction /\ browserActionFor(id)
  THEN <<"Open", id>>
  ELSE IF isActive THEN <<"Disable", id>> ELSE <<"Enable", id>>

\* ------------------------------------------------------------------------
\* Extension list reconciler
\* ------------------------------------------------------------------------

\* the rendered wrapper and image of one add-on (createExtensionWrapper,
\* createExtensionImage): data-extension-id and the attributes of the image
NewEntry(id, act) ==
  [id |-> id, enabled |-> (id \in act), src |-> getExtensionIconSrc(id),
   tooltip |-> getExtensionTooltip(id, id \in act, id \in act)]

\* container.querySelector('[data-extension-id="id"]'): index of the first
\* rendered entry of that id, 0 if there is none
querySelector(r, id) ==
  IF \E i \in 1..Len(r) : r[i].id = id
  THEN CHOOSE i \in 1..Len(r) : r[i].id = id /\ \A j \in 1..(i - 1) : r[j].id # id
  ELSE 0

\* updateExistingExtension: rewrite 'enabled' and 'tooltiptext' in place, and
\* 'src' when it differs from getExtensionIconSrc(addon)
updateExistingExtension(r, i, act) ==
  LET id == r[i].id
      iconSrc == getExtensionIconSrc(id)
  IN [r EXCEPT ![i] = [@ EXCEPT !.enabled = (id \in act),
                                !.tooltip = getExtensionTooltip(id, id \in act, id \in act),
                                !.src = IF @ # iconSrc THEN iconSrc ELSE @]]

\* addNewExtension that appends the wrapper as the last child
addNewExtensionLast(r, id, act) == Append(r, NewEntry(id, act))

\* addNewExtension: insertBefore(wrapper, container.firstChild)
addNewExtension(r, id, act) == <<NewEntry(id, act)>> \o r

\* removeUninstalledExtensions that removes nothing
removeUninstalledExtensionsNone(r, ids) == r

RECURSIVE removeUninstalledExtensions(_, _)
\* remove every rendered entry whose id is not among the current ids
removeUninstalledExtensions(r, ids) ==
  IF r = <<>> THEN <<>>
  ELSE IF Head(r).id \in ids
       THEN <<Head(r)>> \o removeUninstalledExtensions(Tail(r), ids)
       ELSE removeUninstalledExtensions(Tail(r), ids)

RECURSIVE processLoop(_, _, _)
\* the for-loop of processExtensions over userExtensions
processLoop(r, exts, act) ==
  IF exts = <<>> THEN r
  ELSE LET id == Head(exts)
           i == querySelector(r, id)
       IN processLoop(IF i > 0 THEN updateExistingExtension(r, i, act)
                      ELSE addNewExtension(r, id, act),
                      Tail(exts), act)

\* processExtensions(container, userExtensions): the rendered entries after
\* the pass; act is the set of add-ons whose isActive reads true
processExtensions(r, exts, act) ==
  removeUninstalledExtensions(processLoop(r, exts, act), Range(exts))

\* addons.filter(a => !a?.isSystem)
userExtensionsOf(addons) == SelectIds(addons, {id \in Range(addons) : ~isSystem(id)})

\* the ids of the rendered entries
RenderedIds(r) == {r[i].id : i \in 1..Len(r)}

\* ------------------------------------------------------------------------
\* Security status
\* ------------------------------------------------------------------------

\* updateSecurityStatus that leaves the image as it is
updateSecurityStatusSkipped(cur, pg) == cur

\* updateSecurityStatus that looks at the scheme before the indicators
updateSecurityStatusSchemeFirst(cur, pg) ==
  IF ~pg.img \/ ~pg.box THEN cur
  ELSE IF pg.scheme = "https" THEN ICON_SECURE
  ELSE IF pg.scheme = "http" THEN ICON_INSECURE
  ELSE IF pg.sharing THEN ICON_ACTIVE
  ELSE IF pg.perms THEN ICON_WARNING
  ELSE ICON_DEFAULT

\* updateSecurityStatus: the src the status image has afterwards, cur before
updateSecurityStatus(cur, pg) ==
  IF ~pg.img \/ ~pg.box THEN cur
  ELSE IF pg.sharing THEN ICON_ACTIVE
  ELSE IF pg.perms THEN ICON_WARNING
  ELSE IF pg.scheme = "https" THEN ICON_SECURE
  ELSE IF pg.scheme = "http" THEN ICON_INSECURE
  ELSE ICON_DEFAULT

\* ------------------------------------------------------------------------
\* Panel lifecycle
\* ------------------------------------------------------------------------

panelVars == <<isOpen, hidePopupCalled, boundOnGlobalPointerDown,
               boundOnGlobalKeyDown, winListeners>>

menuVars == <<menu, currentContextMenu, currentContextMenuExtensionId,
              extensionMenuListenersSetup, extrasMenuListenersSetup>>

hostVars == <<installed, active>>

\* no handler is running and the window is alive: an event can be dispatched
Idle == showPc = NULL /\ ~unloaded

\* addPanelGlobalHandlers without its 'already bound' guard
addPanelGlobalHandlersUnguarded ==
  /\ boundOnGlobalPointerDown' = TRUE
  /\ boundOnGlobalKeyDown' = TRUE
  /\ winListeners' = [pointerdown |-> winListeners.pointerdown + 1,
                      keydown |-> winListeners.keydown + 1]

\* addPanelGlobalHandlers
addPanelGlobalHandlers ==
  IF boundOnGlobalPointerDown \/ boundOnGlobalKeyDown
  THEN UNCHANGED <<boundOnGlobalPointerDown, boundOnGlobalKeyDown, winListeners>>
  ELSE /\ boundOnGlobalPointerDown' = TRUE
       /\ boundOnGlobalKeyDown' = TRUE
       /\ winListeners' = [pointerdown |-> winListeners.pointerdown + 1,
                           keydown |-> winListeners.keydown + 1]

\* removePanelGlobalHandlers
removePanelGlobalHandlers ==
  /\ winListeners' =
       [pointerdown |-> IF boundOnGlobalPointerDown
                        THEN winListeners.pointerdown - 1
                        ELSE winListeners.pointerdown,
        keydown |-> IF boundOnGlobalKeyDown
                    THEN winListeners.keydown - 1
                    ELSE winListeners.keydown]
  /\ boundOnGlobalPointerDown' = FALSE
  /\ boundOnGlobalKeyDown' = FALSE

\* hidePanel that returns without closing
hidePanelSkipped == UNCHANGED panelVars

\* hidePanel without its 'panel && isOpen' guard
hidePanelUnguarded ==
  /\ hidePopupCalled' = TRUE
  /\ isOpen' = FALSE
  /\ removePanelGlobalHandlers

\* hidePanel(), as called by the handlers
hidePanel ==
  IF panel /\ isOpen
  THEN /\ hidePopupCalled' = TRUE
       /\ isOpen' = FALSE
       /\ removePanelGlobalHandlers
  ELSE /\ hidePopupCalled' = FALSE
       /\ UNCHANGED <<isOpen, boundOnGlobalPointerDown, boundOnGlobalKeyDown,
                      winListeners>>

\* loadExtensions() up to its await: the add-on query is issued; fromShow
\* marks the pass that the showPanel in progress has started
loadExtensions(fromShow) ==
  pending' = Append([i \in 1..Len(pending) |->
                       [pending[i] EXCEPT !.cur = IF fromShow THEN FALSE ELSE @]],
                    [st |-> "issued", addons |-> <<>>, cur |-> fromShow])

\* refreshExtensions without its 'if (this.isOpen)'
refreshExtensionsUnguarded == loadExtensions(FALSE)

\* refreshExtensions()
refreshExtensions ==
  IF isOpen THEN loadExtensions(FALSE) ELSE UNCHANGED pending

\* the AddonManager calls onEnabled / onDisabled / onInstalled / onUninstalled
\* of the registered listener
notifyAddonListeners ==
  IF amListeners > 0 THEN refreshExtensions ELSE UNCHANGED pending

\* room for the query that a notification would start
CanNotify == (amListeners > 0 /\ isOpen) => Len(pending) < MaxPending

\* setupAddonListener without the 'if (!this.addonListener)' before it
setupAddonListenerAlways ==
  /\ addonListener' = TRUE
  /\ amListeners' = amListeners + 1

\* setupAddonListenerIfNeeded()
setupAddonListenerIfNeeded ==
  /\ addonListener' = TRUE
  /\ amListeners' = IF addonListener THEN amListeners ELSE amListeners + 1

\* showPanel(targetButton), up to the call of openPopup: createPanel,
\* setupAddonListenerIfNeeded, loadExtensions, updateSecurityStatus
ShowPanelBegin(targetButton) ==
  /\ Idle
  /\ Len(pending) < MaxPending
  /\ panel' = (panel \/ mainPopupSet)
  /\ IF panel' /\ targetButton # NULL
     THEN /\ setupAddonListenerIfNeeded
          /\ loadExtensions(TRUE)
          /\ securityIcon' = updateSecurityStatus(securityIcon, page)
          /\ showPc' = targetButton
          /\ last' = Ret("showPanel", targetButton, "await", FALSE)
     ELSE /\ UNCHANGED <<addonListener, amListeners, pending, securityIcon, showPc>>
          /\ last' = Ret("showPanel", targetButton, "noop", FALSE)
  /\ UNCHANGED <<mainPopupSet, win, lastAnchorButton, panelVars, hostVars, rendered,
                 extensionData, tasks, menuVars, page, unloaded>>

\* showPanel, from openPopup on: the panel becomes visible
ShowPanelOpen ==
  /\ showPc # NULL
  /\ ~unloaded
  /\ isOpen' = TRUE
  /\ lastAnchorButton' = showPc
  /\ addPanelGlobalHandlers
  /\ UNCHANGED hidePopupCalled
  /\ showPc' = NULL
  /\ last' = Ret("showPanel", showPc, "opened", FALSE)
  /\ UNCHANGED <<mainPopupSet, win, panel, addonListener, amListeners, hostVars,
                 rendered, extensionData, pending, tasks, menuVars, page,
                 securityIcon, unloaded>>

\* hidePanel() called directly
HidePanel ==
  /\ Idle
  /\ hidePanel
  /\ last' = Ret("hidePanel", NULL, IF panel /\ isOpen THEN "closed" ELSE "noop", FALSE)
  /\ UNCHANGED <<mainPopupSet, win, panel, lastAnchorButton, addonListener, amListeners,
                 hostVars, rendered, extensionData, pending, tasks, menuVars,
                 page, securityIcon, showPc, unloaded>>

\* togglePanel(targetButton)
TogglePanel(targetButton) ==
  IF isOpen THEN HidePanel ELSE ShowPanelBegin(targetButton)

\* a pointerdown event reaches the window: boundOnGlobalPointerDown runs
\* if it is registered
PointerDown(target) ==
  /\ Idle
  /\ LET handled == winListeners.pointerdown > 0 /\ panel /\ isOpen
         clickInsidePanel == PanelContains(target)
         clickOnAnchor == lastAnchorButton # NULL
                          /\ AnchorContains(lastAnchorButton, target)
     IN IF handled /\ ~clickInsidePanel /\ ~clickOnAnchor
        THEN /\ hidePanel
             /\ last' = Ret("pointerdown", target, "closed", FALSE)
        ELSE /\ UNCHANGED panelVars
             /\ last' = Ret("pointerdown", target, "noop", FALSE)
  /\ UNCHANGED <<mainPopupSet, win, panel, lastAnchorButton, addonListener, amListeners,
                 hostVars, rendered, extensionData, pending, tasks, menuVars,
                 page, securityIcon, showPc, unloaded>>

Keys == {"Escape", "Enter"}

\* boundOnGlobalKeyDown that closes the panel on every key
KeyDownAnyKey(key) ==
  /\ Idle
  /\ IF winListeners.keydown > 0 /\ panel /\ isOpen
     THEN /\ hidePanel
          /\ last' = Ret("keydown", key, "stopped", FALSE)
     ELSE /\ UNCHANGED panelVars
          /\ last' = Ret("keydown", key, "noop", FALSE)
  /\ UNCHANGED <<mainPopupSet, win, panel, lastAnchorButton, addonListener, amListeners,
                 hostVars, rendered, extensionData, pending, tasks, menuVars,
                 page, securityIcon, showPc, unloaded>>

\* a keydown event reaches the window: boundOnGlobalKeyDown runs if it is
\* registered; "stopped" records event.stopPropagation()
KeyDown(key) ==
  /\ Idle
  /\ IF winListeners.keydown > 0 /\ panel /\ isOpen /\ key = "Escape"
     THEN /\ hidePanel
          /\ last' = Ret("keydown", key, "stopped", FALSE)
     ELSE /\ UNCHANGED panelVars
          /\ last' = Ret("keydown", key, "noop", FALSE)
  /\ UNCHANGED <<mainPopupSet, win, panel, lastAnchorButton, addonListener, amListeners,
                 hostVars, rendered, extensionData, pending, tasks, menuVars,
                 page, securityIcon, showPc, unloaded>>

\* hideExtensionContextMenu()
hideExtensionContextMenu ==
  /\ menu' = IF menu = "extension" THEN NULL ELSE menu
  /\ currentContextMenu' = FALSE
  /\ currentContextMenuExtensionId' = NULL

\* the unload listener of setupEventListeners: window.panelManager.cleanup()
Unload ==
  /\ Idle
  /\ addonListener' = FALSE
  /\ amListeners' = IF addonListener THEN amListeners - 1 ELSE amListeners
  /\ hideExtensionContextMenu
  /\ extrasMenuListenersSetup' = FALSE
  /\ unloaded' = TRUE
  /\ last' = Ret("cleanup", NULL, "done", FALSE)
  /\ UNCHANGED <<mainPopupSet, win, panel, lastAnchorButton, panelVars, hostVars,
                 rendered, extensionData, pending, tasks,
                 extensionMenuListenersSetup, page, securityIcon, showPc>>

\* the user navigates: the host shows another page
Navigate(pg) ==
  /\ Idle
  /\ pg # page
  /\ page' = pg
  /\ last' = Ret("navigate", NULL, "done", FALSE)
  /\ UNCHANGED <<mainPopupSet, win, panel, lastAnchorButton, panelVars, addonListener,
                 amListeners, hostVars, rendered, extensionData, pending, tasks,
                 menuVars, securityIcon, showPc, unloaded>>

\* the script is run in the window: initializeURLBarModifier()
InitializeURLBarModifier ==
  /\ ~unloaded
  /\ showPc = NULL
  /\ win' = initializeURLBarModifier(win)
  /\ last' = Ret("initializeURLBarModifier", NULL,
                 IF win.initialized THEN "skipped" ELSE "done", FALSE)
  /\ UNCHANGED <<mainPopupSet, panel, lastAnchorButton, panelVars, addonListener,
                 amListeners, hostVars, rendered, extensionData, pending, tasks,
                 menuVars, page, securityIcon, showPc, unloaded>>

\* DOMContentLoaded fires in the window: the listeners of setupEventListeners
DOMContentLoaded ==
  /\ ~unloaded
  /\ showPc = NULL
  /\ win' = dispatchDOMContentLoaded(win, win.domListeners)
  /\ last' = Ret("DOMContentLoaded", NULL,
                 IF win.domListeners = 0 THEN "nolistener"
                 ELSE IF ~win.container THEN "nocontainer"
                 ELSE IF win.modified THEN "skipped" ELSE "injected", FALSE)
  /\ UNCHANGED <<mainPopupSet, panel, lastAnchorButton, panelVars, addonListener,
                 amListeners, hostVars, rendered, extensionData, pending, tasks,
                 menuVars, page, securityIcon, showPc, unloaded>>

\* click on the injected button: the handler of setupPageActionButton calls
\* panelManager.togglePanel(button)
ButtonClick ==
  /\ win.clickHandlers > 0
  /\ TogglePanel("button")

\* the unload listener runs if setupEventListeners has registered it
WindowUnload ==
  /\ win.unloadListeners > 0
  /\ Unload

\* ------------------------------------------------------------------------
\* Reconciliation passes
\* ------------------------------------------------------------------------

\* the host resolves the add-on query of a suspended loadExtensions
QueryResolve(i) ==
  /\ Idle
  /\ pending[i].st = "issued"
  /\ pending' = [pending EXCEPT ![i] = [@ EXCEPT !.st = "resolved",
                                                 !.addons = getAddonsByTypes]]
  /\ UNCHANGED <<mainPopupSet, win, panel, lastAnchorButton, panelVars, addonListener,
                 amListeners, hostVars, rendered, extensionData, tasks, menuVars,
                 page, securityIcon, showPc, last, unloaded>>

\* the load of the icon of a rendered entry fails: the 'error' listener of
\* setupImageEventListeners substitutes the fallback icon
ImageError(i) ==
  /\ Idle
  /\ rendered[i].src # FALLBACK_ICON
  /\ rendered' = [rendered EXCEPT ![i] = [@ EXCEPT !.src = FALLBACK_ICON]]
  /\ last' = Ret("imageError", <<rendered[i].id, rendered[i].src>>, "fallback", FALSE)
  /\ UNCHANGED <<mainPopupSet, win, panel, lastAnchorButton, panelVars, addonListener,
                 amListeners, hostVars, extensionData, pending, tasks, menuVars,
                 page, securityIcon, showPc, unloaded>>

\* the host rejects the add-on query: loadExtensions logs and returns
QueryReject(i) ==
  /\ Idle
  /\ pending[i].st = "issued"
  /\ pending' = RemoveAt(pending, i)
  /\ last' = Ret("loadExtensions", <<>>, "rejected", FALSE)
  /\ UNCHANGED <<mainPopupSet, win, panel, lastAnchorButton, panelVars, addonListener,
                 amListeners, hostVars, rendered, extensionData, tasks, menuVars,
                 page, securityIcon, showPc, unloaded>>

\* loadExtensions() after its await: filter, then processExtensions
LoadResume(i) ==
  /\ Idle
  /\ pending[i].st = "resolved"
  /\ LET userExtensions == userExtensionsOf(pending[i].addons)
     IN IF panel
        THEN /\ rendered' = processExtensions(rendered, userExtensions, active)
             /\ extensionData' = Range(userExtensions)
             /\ last' = Ret("loadExtensions", userExtensions, "applied", FALSE)
        ELSE /\ UNCHANGED <<rendered, extensionData>>
             /\ last' = Ret("loadExtensions", userExtensions, "nocontainer", FALSE)
  /\ pending' = RemoveAt(pending, i)
  /\ UNCHANGED <<mainPopupSet, win, panel, lastAnchorButton, panelVars, addonListener,
                 amListeners, hostVars, tasks, menuVars, page, securityIcon,
                 showPc, unloaded>>

\* a suspended loadExtensions whose query the host resolves and whose
\* continuation runs before any other event is dispatched
LoadPass(i) ==
  /\ Idle
  /\ pending[i].st = "issued"
  /\ LET userExtensions == userExtensionsOf(getAddonsByTypes)
     IN IF panel
        THEN /\ rendered' = processExtensions(rendered, userExtensions, active)
             /\ extensionData' = Range(userExtensions)
             /\ last' = Ret("loadExtensions", userExtensions, "applied", FALSE)
        ELSE /\ UNCHANGED <<rendered, extensionData>>
             /\ last' = Ret("loadExtensions", userExtensions, "nocontainer", FALSE)
  /\ pending' = RemoveAt(pending, i)
  /\ UNCHANGED <<mainPopupSet, win, panel, lastAnchorButton, panelVars, addonListener,
                 amListeners, hostVars, tasks, menuVars, page, securityIcon,
                 showPc, unloaded>>

\* ------------------------------------------------------------------------
\* Host events
\* ------------------------------------------------------------------------

\* the host installs, uninstalls, enables or disables a user extension
\* (about:addons, another window) and notifies the add-on listeners
HostInstall(id) ==
  /\ Idle
  /\ id \notin Range(installed)
  /\ CanNotify
  /\ installed' = Append(installed, id)
  /\ active' = active \cup {id}
  /\ notifyAddonListeners
  /\ last' = Ret("host", id, "installed", FALSE)
  /\ UNCHANGED <<mainPopupSet, win, panel, lastAnchorButton, panelVars, addonListener,
                 amListeners, rendered, extensionData, tasks, menuVars, page,
                 securityIcon, showPc, unloaded>>

HostUninstall(id) ==
  /\ Idle
  /\ id \in Range(installed)
  /\ CanNotify
  /\ installed' = SelectIds(installed, Range(installed) \ {id})
  /\ active' = active \ {id}
  /\ notifyAddonListeners
  /\ last' = Ret("host", id, "uninstalled", FALSE)
  /\ UNCHANGED <<mainPopupSet, win, panel, lastAnchorButton, panelVars, addonListener,
                 amListeners, rendered, extensionData, tasks, menuVars, page,
                 securityIcon, showPc, unloaded>>

HostSetActive(id, on) ==
  /\ Idle
  /\ id \in Range(installed)
  /\ (id \in active) # on
  /\ CanNotify
  /\ active' = IF on THEN active \cup {id} ELSE active \ {id}
  /\ notifyAddonListeners
  /\ last' = Ret("host", id, IF on THEN "enabled" ELSE "disabled", FALSE)
  /\ UNCHANGED <<mainPopupSet, win, panel, lastAnchorButton, panelVars, addonListener,
                 amListeners, installed, rendered, extensionData, tasks, menuVars,
                 page, securityIcon, showPc, unloaded>>

\* ------------------------------------------------------------------------
\* Action dispatcher: synchronous handlers
\* ------------------------------------------------------------------------

\* what a host call does
Outcomes == {"ok", "throws"}

\* the panel is on screen and no menupopup is open over it: an element of the
\* panel can be clicked
Visible == Idle /\ isOpen /\ menu = NULL

\* isValidUrl(gBrowser.currentURI.spec)
isValidUrl(pg) == pg.scheme \in {"http", "https"}

\* everything but the panel state and 'last', for the handlers that touch
\* nothing else
restVars == <<mainPopupSet, win, panel, lastAnchorButton, addonListener, amListeners,
              hostVars, rendered, extensionData, pending, tasks, menuVars, page,
              securityIcon, showPc, unloaded>>

restVarsButTasks == <<mainPopupSet, win, panel, lastAnchorButton, addonListener,
                      amListeners, hostVars, rendered, extensionData, pending,
                      menuVars, page, securityIcon, showPc, unloaded>>

\* click on #share-url-button: shareCurrentUrl(event), no try/catch
ShareCurrentUrl ==
  /\ Visible
  /\ \E share \in Outcomes :
       IF page.scheme = NULL
       THEN /\ UNCHANGED panelVars
            /\ last' = Ret("shareCurrentUrl", NULL, "nouri", TRUE)
       ELSE IF ~isValidUrl(page)
       THEN /\ UNCHANGED panelVars
            /\ last' = Ret("shareCurrentUrl", NULL, "invalid", FALSE)
       ELSE IF share = "throws"
       THEN /\ UNCHANGED panelVars
            /\ last' = Ret("shareCurrentUrl", NULL, "failed", TRUE)
       ELSE /\ hidePanel
            /\ last' = Ret("shareCurrentUrl", NULL, "shared", FALSE)
  /\ UNCHANGED restVars

\* click on #add-extension-button: openExtensionsPage(event), no try/catch;
\* hasLoadURI: UC_API.Utils.loadURI is there
OpenExtensionsPage ==
  /\ Visible
  /\ \E hasLoadURI \in BOOLEAN, loadURI \in Outcomes :
       IF hasLoadURI /\ loadURI = "throws"
       THEN /\ UNCHANGED panelVars
            /\ last' = Ret("openExtensionsPage", NULL, "failed", TRUE)
       ELSE /\ hidePanel
            /\ last' = Ret("openExtensionsPage", NULL,
                           IF hasLoadURI THEN "tab" ELSE "nocapability", FALSE)
  /\ UNCHANGED restVars

\* click on #screenshot-button: triggerScreenshotTool(), no try/catch and
\* no hidePanel
TriggerScreenshotTool ==
  /\ Visible
  /\ \E hasCommand \in BOOLEAN, doCommand \in Outcomes :
       last' = Ret("triggerScreenshotTool", NULL,
                   IF ~hasCommand THEN "nocapability"
                   ELSE IF doCommand = "throws" THEN "failed" ELSE "done",
                   hasCommand /\ doCommand = "throws")
  /\ UNCHANGED panelVars
  /\ UNCHANGED restVars

\* click on #reader-button: triggerReaderMode()
TriggerReaderMode ==
  /\ Visible
  /\ \E doCommand \in Outcomes :
       last' = Ret("triggerReaderMode", NULL,
                   IF doCommand = "throws" THEN "caught" ELSE "done", FALSE)
  /\ hidePanel
  /\ UNCHANGED restVars

\* click on #devtools-button: triggerDeveloperTools(); every path, the
\* subview, the toolbarbutton fallback and the catch, ends in hidePanel
TriggerDeveloperTools ==
  /\ Visible
  /\ \E hasPanelUI \in BOOLEAN, showSubView \in Outcomes, doCommand \in Outcomes :
       last' = Ret("triggerDeveloperTools", NULL,
                   IF hasPanelUI /\ showSubView = "ok" THEN "done"
                   ELSE IF doCommand = "ok" THEN "done" ELSE "caught", FALSE)
  /\ hidePanel
  /\ UNCHANGED restVars

\* click on #copy-link-button: the listener of setupPanelEventListeners
CopyLink ==
  /\ Visible
  /\ \E doCommand \in Outcomes :
       last' = Ret("copyLink", NULL,
                   IF doCommand = "throws" THEN "caught" ELSE "done", FALSE)
  /\ hidePanel
  /\ UNCHANGED restVars

\* click on #extras-function: showExtrasContextMenu(event)
ShowExtrasContextMenu ==
  /\ Visible
  /\ extrasMenuListenersSetup' = TRUE
  /\ menu' = "extras"
  /\ last' = Ret("showExtrasContextMenu", NULL, "done", FALSE)
  /\ UNCHANGED <<mainPopupSet, win, panel, lastAnchorButton, panelVars, addonListener,
                 amListeners, hostVars, rendered, extensionData, pending, tasks,
                 currentContextMenu, currentContextMenuExtensionId,
                 extensionMenuListenersSetup, page, securityIcon, showPc, unloaded>>

\* a command of #extras-context-menu is dispatched: the menupopup closes and
\* the listener of setupExtrasMenuListeners runs
ExtrasCommandReady ==
  /\ Idle
  /\ menu = "extras"
  /\ extrasMenuListenersSetup

\* "Clear Cache": clearCache()
ClearCache ==
  /\ ExtrasCommandReady
  /\ menu' = NULL
  /\ \E notify \in Outcomes, clear \in Outcomes :
       last' = Ret("clearCache", <<notify, clear>>,
                   IF page.scheme = NULL THEN "nouri"
                   ELSE IF notify = "throws" \/ clear = "throws" THEN "noreload"
                   ELSE "reloaded",
                   FALSE)
  /\ hidePanel
  /\ UNCHANGED <<mainPopupSet, win, panel, lastAnchorButton, addonListener, amListeners,
                 hostVars, rendered, extensionData, pending, tasks,
                 currentContextMenu, currentContextMenuExtensionId,
                 extensionMenuListenersSetup, extrasMenuListenersSetup, page,
                 securityIcon, showPc, unloaded>>

\* "Manage Extensions": manageExtensions() opens about:addons
ManageExtensions ==
  /\ ExtrasCommandReady
  /\ menu' = NULL
  /\ \E addTab \in Outcomes :
       last' = Ret("manageExtensions", NULL,
                   IF addTab = "throws" THEN "caught" ELSE "tab", FALSE)
  /\ hidePanel
  /\ UNCHANGED <<mainPopupSet, win, panel, lastAnchorButton, addonListener, amListeners,
                 hostVars, rendered, extensionData, pending, tasks,
                 currentContextMenu, currentContextMenuExtensionId,
                 extensionMenuListenersSetup, extrasMenuListenersSetup, page,
                 securityIcon, showPc, unloaded>>

\* "All Page Permissions": showPagePermissions()
ShowPagePermissions ==
  /\ ExtrasCommandReady
  /\ menu' = NULL
  /\ \E addTab \in Outcomes :
       last' = Ret("showPagePermissions", NULL,
                   IF addTab = "throws" THEN "caught" ELSE "tab", FALSE)
  /\ hidePanel
  /\ UNCHANGED <<mainPopupSet, win, panel, lastAnchorButton, addonListener, amListeners,
                 hostVars, rendered, extensionData, pending, tasks,
                 currentContextMenu, currentContextMenuExtensionId,
                 extensionMenuListenersSetup, extrasMenuListenersSetup, page,
                 securityIcon, showPc, unloaded>>

\* the host closes the open menupopup without a command (click elsewhere,
\* Escape): no listener of the script runs
MenuDismiss ==
  /\ Idle
  /\ menu # NULL
  /\ menu' = NULL
  /\ last' = Ret("menuDismiss", NULL, "done", FALSE)
  /\ UNCHANGED <<mainPopupSet, win, panel, lastAnchorButton, panelVars, addonListener,
                 amListeners, hostVars, rendered, extensionData, pending, tasks,
                 currentContextMenu, currentContextMenuExtensionId,
                 extensionMenuListenersSetup, extrasMenuListenersSetup, page,
                 securityIcon, showPc, unloaded>>

\* ------------------------------------------------------------------------
\* Action dispatcher: extension entries and their context menu
\* ------------------------------------------------------------------------

\* a suspended handler that holds the id of the first extension, whatever
\* id it was called with
TaskFirstId(op, id, stage, ok) ==
  [op |-> op, id |-> "e1", stage |-> stage, ok |-> ok, total |-> 0, left |-> 0,
   failed |-> 0]

\* a handler suspended at an await
Task(op, id, stage, ok) ==
  [op |-> op, id |-> id, stage |-> stage, ok |-> ok, total |-> 0, left |-> 0,
   failed |-> 0]

\* this.updateExtensions is called by removeExtension and defined nowhere in
\* the class: the call throws a TypeError
updateExtensionsThrows == TRUE

\* addon.enable() / addon.disable() as the host carries it out
hostToggle(id) ==
  /\ active' = IF id \in active THEN active \ {id} ELSE active \cup {id}
  /\ notifyAddonListeners

\* addon.uninstall() as the host carries it out
hostUninstall(id) ==
  /\ installed' = SelectIds(installed, Range(installed) \ {id})
  /\ active' = active \ {id}
  /\ notifyAddonListeners

\* updateExtensionImageState(extensionId, isEnabled): the 'enabled' attribute
\* of the first entry of that id in the document, and its tooltip when the
\* add-on is still found; tempAddon is a spread of the add-on wrapper, whose
\* id and name are accessors of its prototype and are not copied
updateExtensionImageState(r, id, isEnabled) ==
  LET i == querySelector(r, id)
  IN IF i > 0
     THEN [r EXCEPT ![i] = [@ EXCEPT !.enabled = isEnabled,
                                     !.tooltip = IF getAddonByID(id)
                                                 THEN <<IF isEnabled THEN "Disable"
                                                        ELSE "Enable", "Extension">>
                                                 ELSE @]]
     ELSE r

\* click on a rendered entry: openExtensionPopup(extensionId) up to its
\* first await, which is the one of toggleExtensionState
OpenExtensionPopup(id) ==
  /\ Visible
  /\ id \in RenderedIds(rendered)
  /\ Len(tasks) < MaxTasks
  /\ \E browserAction \in Outcomes, openPopup \in Outcomes :
       IF ~getByID(id) \/ (browserAction = "ok" /\ ~browserActionFor(id))
       THEN /\ tasks' = Append(tasks, Task("toggleExtensionState", id, "lookup", TRUE))
            /\ UNCHANGED panelVars
            /\ last' = Ret("openExtensionPopup", id, "await", FALSE)
       ELSE IF browserAction = "throws" \/ openPopup = "throws"
       THEN /\ UNCHANGED <<tasks, panelVars>>
            /\ last' = Ret("openExtensionPopup", id, "caught", FALSE)
       ELSE /\ hidePanel
            /\ UNCHANGED tasks
            /\ last' = Ret("openExtensionPopup", id, "opened", FALSE)
  /\ UNCHANGED <<mainPopupSet, win, panel, lastAnchorButton, addonListener, amListeners,
                 hostVars, rendered, extensionData, pending, menuVars, page,
                 securityIcon, showPc, unloaded>>

\* toggleExtensionState after 'await AddonManager.getAddonByID': the add-on
\* is looked up and enable() or disable() is called
ToggleLookup(i) ==
  /\ Idle
  /\ tasks[i].op = "toggleExtensionState" /\ tasks[i].stage = "lookup"
  /\ LET id == tasks[i].id
     IN \E lookup \in Outcomes, toggle \in Outcomes :
          IF lookup = "throws"
          THEN /\ tasks' = RemoveAt(tasks, i)
               /\ UNCHANGED <<hostVars, pending>>
               /\ last' = Ret("openExtensionPopup", id, "caught", FALSE)
          ELSE IF ~getAddonByID(id)
          THEN /\ tasks' = RemoveAt(tasks, i)
               /\ UNCHANGED <<hostVars, pending>>
               /\ last' = Ret("openExtensionPopup", id, "notfound", FALSE)
          ELSE IF toggle = "throws"
          THEN /\ tasks' = [tasks EXCEPT ![i] = Task("toggleExtensionState", id, "toggling", FALSE)]
               /\ UNCHANGED <<hostVars, pending>>
               /\ last' = Ret("openExtensionPopup", id, "await", FALSE)
          ELSE /\ CanNotify
               /\ hostToggle(id)
               /\ UNCHANGED installed
               /\ tasks' = [tasks EXCEPT ![i] = Task("toggleExtensionState", id, "toggling", TRUE)]
               /\ last' = Ret("openExtensionPopup", id, "await", FALSE)
  /\ UNCHANGED <<mainPopupSet, win, panel, lastAnchorButton, panelVars, addonListener,
                 amListeners, rendered, extensionData, menuVars, page,
                 securityIcon, showPc, unloaded>>

\* toggleExtensionState after 'await addon.disable()' / 'await addon.enable()':
\* updateExtensionImageState(extensionId, !addon.isActive), then hidePanel;
\* a rejection lands in the catch of openExtensionPopup
ToggleFinish(i) ==
  /\ Idle
  /\ tasks[i].op = "toggleExtensionState" /\ tasks[i].stage = "toggling"
  /\ LET id == tasks[i].id
     IN IF tasks[i].ok
        THEN /\ rendered' = updateExtensionImageState(rendered, id, ~(id \in active))
             /\ hidePanel
             /\ last' = Ret("openExtensionPopup", id, "toggled", FALSE)
        ELSE /\ UNCHANGED <<rendered, panelVars>>
             /\ last' = Ret("openExtensionPopup", id, "caught", FALSE)
  /\ tasks' = RemoveAt(tasks, i)
  /\ UNCHANGED <<mainPopupSet, win, panel, lastAnchorButton, addonListener, amListeners,
                 hostVars, extensionData, pending, menuVars, page, securityIcon,
                 showPc, unloaded>>

\* contextmenu on a rendered entry: showExtensionContextMenu(event, extensionId)
ShowExtensionContextMenu(id) ==
  /\ Visible
  /\ id \in RenderedIds(rendered)
  /\ currentContextMenuExtensionId' = id
  /\ extensionMenuListenersSetup' = TRUE
  /\ \E openPopup \in Outcomes :
       IF openPopup = "ok"
       THEN /\ menu' = "extension"
            /\ currentContextMenu' = TRUE
            /\ last' = Ret("showExtensionContextMenu", id, "done", FALSE)
       ELSE /\ UNCHANGED <<menu, currentContextMenu>>
            /\ last' = Ret("showExtensionContextMenu", id, "caught", FALSE)
  /\ UNCHANGED <<mainPopupSet, win, panel, lastAnchorButton, panelVars, addonListener,
                 amListeners, hostVars, rendered, extensionData, pending, tasks,
                 extrasMenuListenersSetup, page, securityIcon, showPc, unloaded>>

\* a command of #extension-context-menu is dispatched: the menupopup closes
\* and the listener of setupExtensionMenuListeners runs
ExtensionCommandReady ==
  /\ Idle
  /\ menu = "extension"
  /\ extensionMenuListenersSetup

\* what the pin handler finds in the host: gUnifiedExtensions.togglePinned,
\* only the action object of browserActionFor, or no gUnifiedExtensions
PinApis == {"togglePinned", "action", "none"}

\* "Pin to Toolbar": pinExtensionToToolbar(currentContextMenuExtensionId)
PinCommand ==
  /\ ExtensionCommandReady
  /\ menu' = NULL
  /\ LET id == currentContextMenuExtensionId
     IN \E api \in PinApis, hasSetPinned \in BOOLEAN, pin \in Outcomes :
          IF id = NULL
          THEN /\ UNCHANGED <<panelVars, tasks>>
               /\ last' = Ret("pinExtensionToToolbar", id, "noid", FALSE)
          ELSE IF ~getByID(id)
          THEN /\ UNCHANGED <<panelVars, tasks>>
               /\ last' = Ret("pinExtensionToToolbar", id, "notfound", FALSE)
          ELSE IF api = "none"
                  \/ (api = "action" /\ browserActionFor(id) /\ ~hasSetPinned)
          THEN /\ Len(tasks) < MaxTasks
               /\ tasks' = Append(tasks, Task("manageExtension", id, "lookup", TRUE))
               /\ hidePanel
               /\ last' = Ret("pinExtensionToToolbar", id, "manageExtension", FALSE)
          ELSE /\ UNCHANGED tasks
               /\ hidePanel
               /\ last' = Ret("pinExtensionToToolbar", id,
                              IF api = "action" /\ ~browserActionFor(id) THEN "noaction"
                              ELSE IF pin = "throws" THEN "caught" ELSE "pinned",
                              FALSE)
  /\ UNCHANGED <<mainPopupSet, win, panel, lastAnchorButton, addonListener, amListeners,
                 hostVars, rendered, extensionData, pending, currentContextMenu,
                 currentContextMenuExtensionId, extensionMenuListenersSetup,
                 extrasMenuListenersSetup, page, securityIcon, showPc, unloaded>>

\* "Manage Extension" / "Remove Extension": the listener calls
\* manageExtension or removeExtension, which suspends at getAddonByID
AsyncCommand(op) ==
  /\ ExtensionCommandReady
  /\ menu' = NULL
  /\ LET id == currentContextMenuExtensionId
     IN IF id = NULL
        THEN /\ UNCHANGED tasks
             /\ last' = Ret(op, id, "noid", FALSE)
        ELSE /\ Len(tasks) < MaxTasks
             /\ tasks' = Append(tasks, Task(op, id, "lookup", TRUE))
             /\ last' = Ret(op, id, "await", FALSE)
  /\ UNCHANGED <<mainPopupSet, win, panel, lastAnchorButton, panelVars, addonListener,
                 amListeners, hostVars, rendered, extensionData, pending,
                 currentContextMenu, currentContextMenuExtensionId,
                 extensionMenuListenersSetup, extrasMenuListenersSetup, page,
                 securityIcon, showPc, unloaded>>

ManageCommand == AsyncCommand("manageExtension")

RemoveCommand == AsyncCommand("removeExtension")

\* manageExtension(extensionId) after 'await AddonManager.getAddonByID'
ManageLookup(i) ==
  /\ Idle
  /\ tasks[i].op = "manageExtension" /\ tasks[i].stage = "lookup"
  /\ LET id == tasks[i].id
     IN \E lookup \in Outcomes, hasOptions \in BOOLEAN, addTab \in Outcomes :
          LET optionsUrl == getAddonByID(id) /\ hasOptions
          IN IF lookup = "throws" \/ (optionsUrl /\ addTab = "throws")
             THEN /\ UNCHANGED panelVars
                  /\ last' = Ret("manageExtension", id, "caught", FALSE)
             ELSE /\ hidePanel
                  /\ last' = Ret("manageExtension", id,
                                 IF optionsUrl THEN "tab" ELSE "nooptions", FALSE)
  /\ tasks' = RemoveAt(tasks, i)
  /\ UNCHANGED <<mainPopupSet, win, panel, lastAnchorButton, addonListener, amListeners,
                 hostVars, rendered, extensionData, pending, menuVars, page,
                 securityIcon, showPc, unloaded>>

\* the answer to the prompt ignored
removalConfirmedAlways(confirmed) == TRUE

\* 'if (!confirmed) return': removeExtension goes on only after a yes
removalConfirmed(confirmed) == confirmed

\* removeExtension(extensionId) after 'await AddonManager.getAddonByID': the
\* lookup, the confirmation prompt and the call of addon.uninstall(); once
\* the prompt was shown, 'last' keeps the answer: "declined" for a no
RemoveLookup(i) ==
  /\ Idle
  /\ tasks[i].op = "removeExtension" /\ tasks[i].stage = "lookup"
  /\ LET id == tasks[i].id
     IN \E lookup \in Outcomes, confirmed \in BOOLEAN, hasUninstall \in BOOLEAN,
           uninstall \in Outcomes :
          IF lookup = "throws"
          THEN /\ tasks' = RemoveAt(tasks, i)
               /\ UNCHANGED <<hostVars, pending>>
               /\ last' = Ret("removeExtension", id, "caught", FALSE)
          ELSE IF ~getAddonByID(id)
          THEN /\ tasks' = RemoveAt(tasks, i)
               /\ UNCHANGED <<hostVars, pending>>
               /\ last' = Ret("removeExtension", id, "notfound", FALSE)
          ELSE IF ~removalConfirmed(confirmed)
          THEN /\ tasks' = RemoveAt(tasks, i)
               /\ UNCHANGED <<hostVars, pending>>
               /\ last' = Ret("removeExtension", id, "declined", FALSE)
          ELSE IF ~hasUninstall
          THEN /\ tasks' = [tasks EXCEPT ![i] = Task("manageExtension", id, "lookup", TRUE)]
               /\ UNCHANGED <<hostVars, pending>>
               /\ last' = Ret("removeExtension", id,
                              IF confirmed THEN "nocapability" ELSE "declined", FALSE)
          ELSE IF uninstall = "throws"
          THEN /\ tasks' = [tasks EXCEPT ![i] = Task("removeExtension", id, "uninstalling", FALSE)]
               /\ UNCHANGED <<hostVars, pending>>
               /\ last' = Ret("removeExtension", id,
                              IF confirmed THEN "await" ELSE "declined", FALSE)
          ELSE /\ CanNotify
               /\ hostUninstall(id)
               /\ tasks' = [tasks EXCEPT ![i] = Task("removeExtension", id, "uninstalling", TRUE)]
               /\ last' = Ret("removeExtension", id,
                              IF confirmed THEN "await" ELSE "declined", FALSE)
  /\ UNCHANGED <<mainPopupSet, win, panel, lastAnchorButton, panelVars, addonListener,
                 amListeners, rendered, extensionData, menuVars, page,
                 securityIcon, showPc, unloaded>>

\* removeExtension after 'await addon.uninstall()': this.updateExtensions(),
\* then hidePanel; a rejection and the TypeError both land in the catch
RemoveFinish(i) ==
  /\ Idle
  /\ tasks[i].op = "removeExtension" /\ tasks[i].stage = "uninstalling"
  /\ LET id == tasks[i].id
     IN IF ~tasks[i].ok
        THEN /\ UNCHANGED panelVars
             /\ last' = Ret("removeExtension", id, "caught", FALSE)
        ELSE /\ IF updateExtensionsThrows THEN UNCHANGED panelVars ELSE hidePanel
             /\ last' = Ret("removeExtension", id, "uninstalled", FALSE)
  /\ tasks' = RemoveAt(tasks, i)
  /\ UNCHANGED <<mainPopupSet, win, panel, lastAnchorButton, addonListener, amListeners,
                 hostVars, rendered, extensionData, pending, menuVars, page,
                 securityIcon, showPc, unloaded>>

\* "Report Extension": reportExtension(currentContextMenuExtensionId); the
\* unawaited getAddonByID gives a promise, which is never null
ReportCommand ==
  /\ ExtensionCommandReady
  /\ menu' = NULL
  /\ LET id == currentContextMenuExtensionId
     IN \E addTab \in Outcomes :
          IF id = NULL
          THEN /\ UNCHANGED panelVars
               /\ last' = Ret("reportExtension", id, "noid", FALSE)
          ELSE IF addTab = "throws"
          THEN /\ UNCHANGED panelVars
               /\ last' = Ret("reportExtension", id, "caught", FALSE)
          ELSE /\ hidePanel
               /\ last' = Ret("reportExtension", id, "tab", FALSE)
  /\ UNCHANGED <<mainPopupSet, win, panel, lastAnchorButton, addonListener, amListeners,
                 hostVars, rendered, extensionData, pending, tasks,
                 currentContextMenu, currentContextMenuExtensionId,
                 extensionMenuListenersSetup, extrasMenuListenersSetup, page,
                 securityIcon, showPc, unloaded>>

\* ------------------------------------------------------------------------
\* Action dispatcher: cookies
\* ------------------------------------------------------------------------

\* cookies the current host may hold
MaxCookies == 2

\* what clearCookies has done when it returns: how far the primary strategy
\* got ("nohost", "import" or "enumeration" threw, "loop" ran to its end),
\* the cookies it enumerated, how many of its remove() calls threw, how often
\* the fallback block (Services.cookies) was entered, whether it failed too
CookieReport(primary, total, failed, fallback, fallbackFailed) ==
  [primary |-> primary, total |-> total, failed |-> failed, fallback |-> fallback,
   fallbackFailed |-> fallbackFailed]

\* the catch (newApiError) block of clearCookies, run once with what the
\* host does to it; enumerate is Services.cookies.getCookiesFromHost, which
\* is called outside the inner try: "reloaded" iff gBrowser.reload() is
\* reached afterwards
cookieFallback(enumerate) ==
  IF enumerate = "throws" THEN "noreload" ELSE "reloaded"

\* clearCookies that returns without having reloaded
cookiesReturnNoReload(report, res) ==
  /\ hidePanel
  /\ last' = Ret("clearCookies", report, "noreload", FALSE)

\* clearCookies returns: hidePanel after the outer try/catch
cookiesReturn(report, res) ==
  /\ hidePanel
  /\ last' = Ret("clearCookies", report, res, FALSE)

\* "Clear Cookies": clearCookies() up to its first await; without a host
\* nothing is cleared or reloaded, a throwing import runs the fallback at once
ClearCookies ==
  /\ ExtrasCommandReady
  /\ menu' = NULL
  /\ Len(tasks) < MaxTasks
  /\ \E import \in Outcomes, enumerate \in Outcomes, removeAll \in Outcomes :
       IF ~isValidUrl(page)
       THEN /\ cookiesReturn(CookieReport("nohost", 0, 0, 0, FALSE), "noreload")
            /\ UNCHANGED tasks
       ELSE IF import = "throws"
       THEN /\ cookiesReturn(CookieReport("import", 0, 0, 1,
                                          enumerate = "throws" \/ removeAll = "throws"),
                             cookieFallback(enumerate))
            /\ UNCHANGED tasks
       ELSE /\ tasks' = Append(tasks, Task("clearCookies", NULL, "enumerating", TRUE))
            /\ UNCHANGED panelVars
            /\ last' = Ret("clearCookies", NULL, "await", FALSE)
  /\ UNCHANGED <<mainPopupSet, win, panel, lastAnchorButton, addonListener, amListeners,
                 hostVars, rendered, extensionData, pending, currentContextMenu,
                 currentContextMenuExtensionId, extensionMenuListenersSetup,
                 extrasMenuListenersSetup, page, securityIcon, showPc, unloaded>>

\* clearCookies after 'await cookieManager.getCookiesFromHost(host)': a
\* rejection runs the fallback, an empty list goes straight to the reload
CookiesEnumerated(i) ==
  /\ Idle
  /\ tasks[i].op = "clearCookies" /\ tasks[i].stage = "enumerating"
  /\ \E getCookies \in Outcomes, n \in 0..MaxCookies, enumerate \in Outcomes,
        removeAll \in Outcomes :
       IF getCookies = "throws"
       THEN /\ cookiesReturn(CookieReport("enumeration", 0, 0, 1,
                                          enumerate = "throws" \/ removeAll = "throws"),
                             cookieFallback(enumerate))
            /\ tasks' = RemoveAt(tasks, i)
       ELSE IF n = 0
       THEN /\ cookiesReturn(CookieReport("loop", 0, 0, 0, FALSE), "reloaded")
            /\ tasks' = RemoveAt(tasks, i)
       ELSE /\ tasks' = [tasks EXCEPT ![i] = [@ EXCEPT !.stage = "removing",
                                                      !.total = n, !.left = n]]
            /\ UNCHANGED panelVars
            /\ last' = Ret("clearCookies", NULL, "await", FALSE)
  /\ UNCHANGED restVarsButTasks

\* clearCookies after one 'await cookieManager.remove(cookie)': a throwing
\* remove is caught inside the loop; after the last cookie, reload and return
CookieRemoved(i) ==
  /\ Idle
  /\ tasks[i].op = "clearCookies" /\ tasks[i].stage = "removing"
  /\ \E remove \in Outcomes :
       LET failed == tasks[i].failed + (IF remove = "throws" THEN 1 ELSE 0)
       IN IF tasks[i].left = 1
          THEN /\ cookiesReturn(CookieReport("loop", tasks[i].total, failed, 0, FALSE),
                                "reloaded")
               /\ tasks' = RemoveAt(tasks, i)
          ELSE /\ tasks' = [tasks EXCEPT ![i] = [@ EXCEPT !.left = @ - 1,
                                                         !.failed = failed]]
               /\ UNCHANGED panelVars
               /\ last' = Ret("clearCookies", NULL, "await", FALSE)
  /\ UNCHANGED restVarsButTasks

\* ------------------------------------------------------------------------
\* Specification
\* ------------------------------------------------------------------------

Init ==
  /\ mainPopupSet \in BOOLEAN
  /\ win = Booted
  /\ panel = FALSE
  /\ isOpen = FALSE
  /\ hidePopupCalled = FALSE
  /\ lastAnchorButton = NULL
  /\ boundOnGlobalPointerDown = FALSE
  /\ boundOnGlobalKeyDown = FALSE
  /\ winListeners = [pointerdown |-> 0, keydown |-> 0]
  /\ addonListener = FALSE
  /\ amListeners = 0
  /\ installed = <<"sys", "e1", "e2">>
  /\ active = {"sys", "e1", "e2"}
  /\ rendered = <<>>
  /\ extensionData = {}
  /\ pending = <<>>
  /\ tasks = <<>>
  /\ menu = NULL
  /\ currentContextMenu = FALSE
  /\ currentContextMenuExtensionId = NULL
  /\ extensionMenuListenersSetup = FALSE
  /\ extrasMenuListenersSetup = FALSE
  /\ page \in LifecyclePages
  /\ securityIcon = NULL
  /\ showPc = NULL
  /\ last = Ret("init", NULL, "done", FALSE)
  /\ unloaded = FALSE

Next ==
  \/ \E b \in Anchors \cup {NULL} : ShowPanelBegin(b)
  \/ ShowPanelOpen
  \/ HidePanel
  \/ \E b \in Anchors : TogglePanel(b)
  \/ \E t \in Targets : PointerDown(t)
  \/ \E k \in Keys : KeyDown(k)
  \/ Unload
  \/ \E i \in 1..Len(pending) : QueryResolve(i)
  \/ \E i \in 1..Len(pending) : QueryReject(i)
  \/ \E i \in 1..Len(pending) : LoadResume(i)
  \/ \E id \in UserIds : HostInstall(id)
  \/ \E id \in UserIds : HostUninstall(id)
  \/ \E id \in UserIds, on \in BOOLEAN : HostSetActive(id, on)

Spec == Init /\ [][Next]_vars

\* The action dispatcher: the panel is opened and closed through its button,
\* one user extension is installed, and the host changes the add-ons only
\* when a handler asks for it
InitActions ==
  /\ mainPopupSet = TRUE
  /\ win = Booted
  /\ panel = FALSE
  /\ isOpen = FALSE
  /\ hidePopupCalled = FALSE
  /\ lastAnchorButton = NULL
  /\ boundOnGlobalPointerDown = FALSE
  /\ boundOnGlobalKeyDown = FALSE
  /\ winListeners = [pointerdown |-> 0, keydown |-> 0]
  /\ addonListener = FALSE
  /\ amListeners = 0
  /\ \E id \in UserIds : installed = <<"sys", id>> /\ active = {"sys", id}
  /\ rendered = <<>>
  /\ extensionData = {}
  /\ pending = <<>>
  /\ tasks = <<>>
  /\ menu = NULL
  /\ currentContextMenu = FALSE
  /\ currentContextMenuExtensionId = NULL
  /\ extensionMenuListenersSetup = FALSE
  /\ extrasMenuListenersSetup = FALSE
  /\ page \in ActionPages
  /\ securityIcon = NULL
  /\ showPc = NULL
  /\ last = Ret("init", NULL, "done", FALSE)
  /\ unloaded = FALSE

NextActions ==
  \/ TogglePanel("button")
  \/ ShowPanelOpen
  \/ PointerDown("elsewhere")
  \/ Unload
  \/ \E i \in 1..Len(pending) : LoadPass(i)
  \/ ShareCurrentUrl
  \/ OpenExtensionsPage
  \/ TriggerScreenshotTool
  \/ TriggerReaderMode
  \/ TriggerDeveloperTools
  \/ CopyLink
  \/ ShowExtrasContextMenu
  \/ ClearCache
  \/ ClearCookies
  \/ ManageExtensions
  \/ ShowPagePermissions
  \/ MenuDismiss
  \/ \E id \in UserIds : OpenExtensionPopup(id)
  \/ \E id \in UserIds : ShowExtensionContextMenu(id)
  \/ PinCommand
  \/ ManageCommand
  \/ RemoveCommand
  \/ ReportCommand
  \/ \E i \in 1..Len(tasks) : ToggleLookup(i)
  \/ \E i \in 1..Len(tasks) : ToggleFinish(i)
  \/ \E i \in 1..Len(tasks) : ManageLookup(i)
  \/ \E i \in 1..Len(tasks) : RemoveLookup(i)
  \/ \E i \in 1..Len(tasks) : RemoveFinish(i)
  \/ \E i \in 1..Len(tasks) : CookiesEnumerated(i)
  \/ \E i \in 1..Len(tasks) : CookieRemoved(i)

SpecActions == InitActions /\ [][NextActions]_vars

\* The window from the start: the script runs, DOM-ready fires, and the panel
\* is toggled by clicks on the injected button and dismissed by pointer and key
InitWindow ==
  /\ mainPopupSet = TRUE
  /\ \E container \in BOOLEAN : win = Fresh(container)
  /\ panel = FALSE
  /\ isOpen = FALSE
  /\ hidePopupCalled = FALSE
  /\ lastAnchorButton = NULL
  /\ boundOnGlobalPointerDown = FALSE
  /\ boundOnGlobalKeyDown = FALSE
  /\ winListeners = [pointerdown |-> 0, keydown |-> 0]
  /\ addonListener = FALSE
  /\ amListeners = 0
  /\ installed = <<"sys", "e1">>
  /\ active = {"sys", "e1"}
  /\ rendered = <<>>
  /\ extensionData = {}
  /\ pending = <<>>
  /\ tasks = <<>>
  /\ menu = NULL
  /\ currentContextMenu = FALSE
  /\ currentContextMenuExtensionId = NULL
  /\ extensionMenuListenersSetup = FALSE
  /\ extrasMenuListenersSetup = FALSE
  /\ page \in LifecyclePages
  /\ securityIcon = NULL
  /\ showPc = NULL
  /\ last = Ret("start", NULL, "done", FALSE)
  /\ unloaded = FALSE

NextWindow ==
  \/ InitializeURLBarModifier
  \/ DOMContentLoaded
  \/ ButtonClick
  \/ ShowPanelOpen
  \/ \E i \in 1..Len(pending) : LoadPass(i)
  \/ \E t \in Targets : PointerDown(t)
  \/ \E k \in Keys : KeyDown(k)
  \/ WindowUnload

SpecWindow == InitWindow /\ [][NextWindow]_vars

\* The security status: the panel is opened and closed through its button on
\* every kind of page, and the user navigates between the pages
InitSecurity ==
  /\ mainPopupSet = TRUE
  /\ win = Booted
  /\ panel = FALSE
  /\ isOpen = FALSE
  /\ hidePopupCalled = FALSE
  /\ lastAnchorButton = NULL
  /\ boundOnGlobalPointerDown = FALSE
  /\ boundOnGlobalKeyDown = FALSE
  /\ winListeners = [pointerdown |-> 0, keydown |-> 0]
  /\ addonListener = FALSE
  /\ amListeners = 0
  /\ installed = <<"sys">>
  /\ active = {"sys"}
  /\ rendered = <<>>
  /\ extensionData = {}
  /\ pending = <<>>
  /\ tasks = <<>>
  /\ menu = NULL
  /\ currentContextMenu = FALSE
  /\ currentContextMenuExtensionId = NULL
  /\ extensionMenuListenersSetup = FALSE
  /\ extrasMenuListenersSetup = FALSE
  /\ page \in Pages
  /\ securityIcon = NULL
  /\ showPc = NULL
  /\ last = Ret("init", NULL, "done", FALSE)
  /\ unloaded = FALSE

NextSecurity ==
  \/ TogglePanel("button")
  \/ ShowPanelOpen
  \/ \E i \in 1..Len(pending) : LoadPass(i)
  \/ \E pg \in Pages : Navigate(pg)

SpecSecurity == InitSecurity /\ [][NextSecurity]_vars

\* the extensions the reconciler is exercised on: one with an icon and an
\* action, one without either, one with an icon and a throwing action lookup
ReconcileIds == {"e1", "e2", "e3"}

\* The reconciler: the host installs, uninstalls, enables and disables three
\* extensions in every order while the panel is opened and closed, and the
\* icons of rendered entries fail to load
InitReconcile ==
  /\ mainPopupSet = TRUE
  /\ win = Booted
  /\ panel = FALSE
  /\ isOpen = FALSE
  /\ hidePopupCalled = FALSE
  /\ lastAnchorButton = NULL
  /\ boundOnGlobalPointerDown = FALSE
  /\ boundOnGlobalKeyDown = FALSE
  /\ winListeners = [pointerdown |-> 0, keydown |-> 0]
  /\ addonListener = FALSE
  /\ amListeners = 0
  /\ installed = <<"sys">>
  /\ active = {"sys"}
  /\ rendered = <<>>
  /\ extensionData = {}
  /\ pending = <<>>
  /\ tasks = <<>>
  /\ menu = NULL
  /\ currentContextMenu = FALSE
  /\ currentContextMenuExtensionId = NULL
  /\ extensionMenuListenersSetup = FALSE
  /\ extrasMenuListenersSetup = FALSE
  /\ page \in {pg \in ActionPages : pg.scheme = "https"}
  /\ securityIcon = NULL
  /\ showPc = NULL
  /\ last = Ret("init", NULL, "done", FALSE)
  /\ unloaded = FALSE

NextReconcile ==
  \/ TogglePanel("button")
  \/ ShowPanelOpen
  \/ \E i \in 1..Len(pending) : LoadPass(i)
  \/ \E i \in 1..Len(rendered) : ImageError(i)
  \/ \E id \in ReconcileIds : HostInstall(id)
  \/ \E id \in ReconcileIds : HostUninstall(id)
  \/ \E id \in ReconcileIds, on \in BOOLEAN : HostSetActive(id, on)

SpecReconcile == InitReconcile /\ [][NextReconcile]_vars

\* The extension context menu: two extensions are installed, the menu is
\* opened on their entries and its commands are chosen while the host
\* installs, uninstalls, enables and disables them
InitMenu ==
  /\ mainPopupSet = TRUE
  /\ win = Booted
  /\ panel = FALSE
  /\ isOpen = FALSE
  /\ hidePopupCalled = FALSE
  /\ lastAnchorButton = NULL
  /\ boundOnGlobalPointerDown = FALSE
  /\ boundOnGlobalKeyDown = FALSE
  /\ winListeners = [pointerdown |-> 0, keydown |-> 0]
  /\ addonListener = FALSE
  /\ amListeners = 0
  /\ installed = <<"sys", "e1", "e2">>
  /\ active = {"sys", "e1", "e2"}
  /\ rendered = <<>>
  /\ extensionData = {}
  /\ pending = <<>>
  /\ tasks = <<>>
  /\ menu = NULL
  /\ currentContextMenu = FALSE
  /\ currentContextMenuExtensionId = NULL
  /\ extensionMenuListenersSetup = FALSE
  /\ extrasMenuListenersSetup = FALSE
  /\ page \in {pg \in ActionPages : pg.scheme = "https"}
  /\ securityIcon = NULL
  /\ showPc = NULL
  /\ last = Ret("init", NULL, "done", FALSE)
  /\ unloaded = FALSE

NextMenu ==
  \/ TogglePanel("button")
  \/ ShowPanelOpen
  \/ \E i \in 1..Len(pending) : LoadPass(i)
  \/ \E id \in UserIds : HostInstall(id)
  \/ \E id \in UserIds : HostUninstall(id)
  \/ \E id \in UserIds, on \in BOOLEAN : HostSetActive(id, on)
  \/ \E id \in UserIds : ShowExtensionContextMenu(id)
  \/ MenuDismiss
  \/ PinCommand
  \/ ManageCommand
  \/ RemoveCommand
  \/ ReportCommand
  \/ \E i \in 1..Len(tasks) : ManageLookup(i)
  \/ \E i \in 1..Len(tasks) : RemoveLookup(i)
  \/ \E i \in 1..Len(tasks) : RemoveFinish(i)

SpecMenu == InitMenu /\ [][NextMenu]_vars

\* Overlapping passes: the panel is toggled through its button while the host
\* installs and uninstalls two extensions; every add-on query resolves, at a
\* time of the host's choosing, and its continuation runs when the host lets it
InitPasses ==
  /\ mainPopupSet = TRUE
  /\ win = Booted
  /\ panel = FALSE
  /\ isOpen = FALSE
  /\ hidePopupCalled = FALSE
  /\ lastAnchorButton = NULL
  /\ boundOnGlobalPointerDown = FALSE
  /\ boundOnGlobalKeyDown = FALSE
  /\ winListeners = [pointerdown |-> 0, keydown |-> 0]
  /\ addonListener = FALSE
  /\ amListeners = 0
  /\ installed = <<"sys", "e1", "e2">>
  /\ active = {"sys", "e1", "e2"}
  /\ rendered = <<>>
  /\ extensionData = {}
  /\ pending = <<>>
  /\ tasks = <<>>
  /\ menu = NULL
  /\ currentContextMenu = FALSE
  /\ currentContextMenuExtensionId = NULL
  /\ extensionMenuListenersSetup = FALSE
  /\ extrasMenuListenersSetup = FALSE
  /\ page \in {pg \in ActionPages : pg.scheme = "https"}
  /\ securityIcon = NULL
  /\ showPc = NULL
  /\ last = Ret("init", NULL, "done", FALSE)
  /\ unloaded = FALSE

NextPasses ==
  \/ TogglePanel("button")
  \/ ShowPanelOpen
  \/ \E i \in 1..Len(pending) : QueryResolve(i)
  \/ \E i \in 1..Len(pending) : LoadResume(i)
  \/ \E id \in UserIds : HostInstall(id)
  \/ \E id \in UserIds : HostUninstall(id)

SpecPasses == InitPasses /\ [][NextPasses]_vars

\* ------------------------------------------------------------------------
\* Properties
\* ------------------------------------------------------------------------

\* C1: the window holds no dismissal listener while isOpen is false and
\* exactly two, one pointerdown and one keydown, while isOpen is true; it
\* never holds more than two.
C1_DismissalListeners ==
  /\ isOpen => winListeners = [pointerdown |-> 1, keydown |-> 1]
  /\ ~isOpen => winListeners = [pointerdown |-> 0, keydown |-> 0]
  /\ winListeners.pointerdown + winListeners.keydown <= 2

\* a showPanel has opened the panel and the two listeners are registered
C1_Witness ==
  /\ last.op = "showPanel" /\ last.res = "opened"
  /\ isOpen
  /\ winListeners.pointerdown + winListeners.keydown = 2

\* C2: when a reconciliation pass has run, the rendered entries carry exactly
\* the ids the non-system query returned, each id once.
C2_RenderedEqualsQuery ==
  (last.op = "loadExtensions" /\ last.res = "applied") =>
    /\ RenderedIds(rendered) = Range(last.arg)
    /\ Cardinality(RenderedIds(rendered)) = Len(rendered)
    /\ \A id \in RenderedIds(rendered) : id \notin SystemIds

\* a pass has run on a query result that differs from what is installed by
\* now, and has left one entry
C2_Witness ==
  /\ last.op = "loadExtensions" /\ last.res = "applied"
  /\ Len(rendered) = 1
  /\ Len(installed) = 3

\* the icon the status image is to show for a page with an identity box
C3_IconOf(pg) ==
  IF pg.sharing THEN "shield-check.svg"
  ELSE IF pg.perms THEN "shield-exclamation.svg"
  ELSE IF pg.scheme = "https" THEN "security.svg"
  ELSE IF pg.scheme = "http" THEN "lock-open.svg"
  ELSE "info.svg"

\* C3 as stated: when showPanel is about to call openPopup, the pass it has
\* started is complete and the security icon is refreshed.
C3_RefreshedBeforeOpen ==
  showPc # NULL =>
    /\ \A i \in 1..Len(pending) : ~pending[i].cur
    /\ securityIcon = C3_IconOf(page)

\* C3 as amended: when showPanel is about to call openPopup, the security
\* icon is refreshed and the add-on query of the pass is issued, the pass
\* itself still suspended at that query.
C3_QueryIssuedBeforeOpen ==
  showPc # NULL =>
    /\ \E i \in 1..Len(pending) : pending[i].cur /\ pending[i].st = "issued"
    /\ securityIcon = C3_IconOf(page)

\* showPanel stands right before openPopup, on a panel that is not open
C3_Witness == showPc # NULL /\ ~isOpen /\ panel

\* a pointer-down target lies inside the panel or inside the anchor
C4_Inside(anchor, target) ==
  \/ target = "inPanel"
  \/ anchor = "button" /\ target = "inButton"
  \/ anchor = "other" /\ target = "inOther"

\* C4: a pointer-down while the panel is open leaves it open iff the target
\* is inside the panel or inside the anchor element.
C4_OutsideClickCloses ==
  [][(isOpen /\ last'.op = "pointerdown") =>
       (isOpen' <=> C4_Inside(lastAnchorButton, last'.arg))]_vars

\* an outside pointer-down has closed the panel
C4_Witness ==
  /\ last = Ret("pointerdown", "elsewhere", "closed", FALSE)
  /\ ~isOpen
  /\ lastAnchorButton = "button"

\* clearCookies has returned
CookiesDone == last.op = "clearCookies" /\ last.res # "await"

\* C5 as stated: when remove() of the primary strategy threw for every cookie
\* of the host, the fallback was invoked exactly once and the page reloaded.
C5_FallbackOncePerCookieFailure ==
  (CookiesDone /\ last.arg.total >= 1 /\ last.arg.failed = last.arg.total) =>
    (last.arg.fallback = 1 /\ last.res = "reloaded")

\* C5 as amended: when remove() of the primary strategy threw for every
\* cookie, the fallback was not invoked and the page reloaded; the fallback
\* was invoked, once, exactly when the import or the enumeration threw.
C5_FallbackOnlyForWholeFailure ==
  CookiesDone =>
    /\ (last.arg.total >= 1 /\ last.arg.failed = last.arg.total) =>
         (last.arg.fallback = 0 /\ last.res = "reloaded")
    /\ last.arg.fallback = (IF last.arg.primary \in {"import", "enumeration"}
                            THEN 1 ELSE 0)

\* clearCookies has returned after remove() threw for each of two cookies
C5_Witness ==
  /\ CookiesDone
  /\ last.arg.total = 2
  /\ last.arg.failed = 2

\* a handler has carried out its host-visible effect
C6_Succeeded ==
  \/ last.op \in {"openExtensionsPage", "manageExtension", "reportExtension",
                  "manageExtensions", "showPagePermissions"} /\ last.res = "tab"
  \/ last.op \in {"clearCache", "clearCookies"} /\ last.res = "reloaded"
  \/ last.op = "openExtensionPopup" /\ last.res = "toggled"
  \/ last.op = "pinExtensionToToolbar" /\ last.res = "pinned"
  \/ last.op = "removeExtension" /\ last.res = "uninstalled"

\* C6: a handler that has carried out its host-visible effect has closed the
\* panel when it returns.
C6_SuccessClosesPanel == C6_Succeeded => ~isOpen

\* the handlers of the extension entries and of their context menu
ExtensionOps == {"openExtensionPopup", "pinExtensionToToolbar", "manageExtension",
                 "removeExtension", "reportExtension"}

\* C7 as stated: a handler that returns early or after a failure has closed
\* the panel, a declined removal apart.
C7_FailureClosesPanel ==
  (last.op \in ExtensionOps /\ last.res \in {"notfound", "caught", "nocapability"})
    => ~isOpen

\* C7 as amended: a handler of an extension entry that does not find its
\* extension, or whose host call throws or rejects, returns with the panel
\* state as it was; pin with a throwing pin call, and the handlers that call
\* hidePanel after their try/catch, return with the panel closed.
C7_FailureLeavesPanel ==
  [][/\ (/\ last'.op \in ExtensionOps
         /\ last'.res \in {"notfound", "caught"}
         /\ ~(last'.op = "pinExtensionToToolbar" /\ last'.res = "caught"))
        => UNCHANGED panelVars
     /\ (\/ last'.op = "pinExtensionToToolbar" /\ last'.res = "caught"
         \/ /\ last'.op \in {"triggerReaderMode", "triggerDeveloperTools", "copyLink",
                             "clearCache", "clearCookies", "manageExtensions",
                             "showPagePermissions"}
            /\ last'.res # "await")
        => ~isOpen']_vars

\* pin has not found its extension and has returned with the panel open
C7_Witness ==
  /\ last.op = "pinExtensionToToolbar" /\ last.res = "notfound"
  /\ isOpen

\* C8: no handler lets an exception of a host call escape to its caller.
C8_NoExceptionEscapes == ~last.threw

\* C9: a declined removal confirmation changes neither the installed
\* add-ons, nor the rendered entries, nor isOpen, nor the dismissal listeners.
C9_DeclinedRemovalChangesNothing ==
  [][(last'.op = "removeExtension" /\ last'.res = "declined") =>
       UNCHANGED <<installed, active, rendered, panelVars>>]_vars

\* a removal was declined with the panel open and the extension installed
C9_Witness ==
  /\ last.op = "removeExtension" /\ last.res = "declined"
  /\ isOpen
  /\ last.arg \in Range(installed)

\* C10: after window unload no dismissal listener is registered.
C10_UnloadDeregisters ==
  unloaded => winListeners = [pointerdown |-> 0, keydown |-> 0]

\* the command handlers of the extension context menu
C11_MenuOps == {"pinExtensionToToolbar", "manageExtension", "removeExtension",
                "reportExtension"}

\* C11: once a pin, manage, remove or report handler has completed, or the
\* extension menu has been closed without a command, the tracked extension id
\* and the tracked menu are both null.
C11_MenuStateCleared ==
  (\/ last.op \in C11_MenuOps /\ last.res # "await"
   \/ last.op = "menuDismiss" /\ extensionMenuListenersSetup)
    => (currentContextMenuExtensionId = NULL /\ ~currentContextMenu)

\* C13: when the click handler has toggled an extension, the 'enabled'
\* attribute of its rendered entry equals the new active state of the add-on.
C13_ToggledEntryMatches ==
  (last.op = "openExtensionPopup" /\ last.res = "toggled") =>
    \A i \in 1..Len(rendered) :
      rendered[i].id = last.arg => (rendered[i].enabled <=> last.arg \in active)

\* C20: a clear-cache request on a page with a current URI has reloaded the
\* page when it returns, also when the notification or the clear call threw.
C20_ClearCacheReloads ==
  (last.op = "clearCache" /\ page.scheme # NULL) => last.res = "reloaded"

\* C12: the tracked id is the id of the most recent right-click and nothing
\* else writes it; a menu command acts on the tracked id, hands that id to the
\* handler it suspends, and a suspended handler goes on with the id it was
\* given; a removal takes away that extension and no other, whatever the
\* host and the passes have done in between.
C12_ActsOnTrackedId ==
  [][/\ last'.op = "showExtensionContextMenu"
          => currentContextMenuExtensionId' = last'.arg
     /\ last'.op \notin {"showExtensionContextMenu", "cleanup"}
          => UNCHANGED currentContextMenuExtensionId
     /\ (menu = "extension" /\ menu' = NULL /\ last'.op \in C11_MenuOps)
          => /\ last'.arg = currentContextMenuExtensionId
             /\ last'.arg # NULL
             /\ Len(tasks') > Len(tasks)
                  => tasks'[Len(tasks')].id = currentContextMenuExtensionId
     /\ (menu' = menu /\ last'.op \in C11_MenuOps /\ last' # last)
          => \E i \in 1..Len(tasks) : tasks[i].id = last'.arg
     /\ (last'.op \in C11_MenuOps /\ installed' # installed)
          => {installed[i] : i \in 1..Len(installed)}
               \ {installed'[i] : i \in 1..Len(installed')} = {last'.arg}]_vars

\* a removal chosen in the menu of e1 has uninstalled e1 and left e2, on whose
\* entry the menu was opened in between
C12_Witness ==
  /\ last = Ret("removeExtension", "e1", "uninstalled", FALSE)
  /\ currentContextMenuExtensionId = "e2"
  /\ installed = <<"sys", "e2">>

\* C14: an entry whose icon failed to load and shows the fallback icon keeps
\* the fallback icon as long as it is rendered.
C14_FailedIconNotRetried ==
  [][\A i \in 1..Len(rendered), j \in 1..Len(rendered') :
       (rendered[i].id = rendered'[j].id /\ rendered[i].src = "extension.svg")
         => rendered'[j].src = "extension.svg"]_vars

\* the ids of the rendered entries, first child first
C15_Ids(r) == [i \in 1..Len(r) |-> r[i].id]

C15_Reverse(q) == [i \in 1..Len(q) |-> q[Len(q) + 1 - i]]

\* C15: a pass leaves the entries it has inserted ahead of all the others,
\* the one of the last queried extension first, and the entries that were
\* rendered before in the order they had.
C15_NewestFirst ==
  [][(Len(pending') < Len(pending) /\ last'.res = "applied") =>
       LET old == C15_Ids(rendered)
           olds == {old[i] : i \in 1..Len(old)}
           query == last'.arg
           queried == {query[i] : i \in 1..Len(query)}
           fresh == SelectSeq(query, LAMBDA id : id \notin olds)
           kept == SelectSeq(old, LAMBDA id : id \in queried)
       IN C15_Ids(rendered') = C15_Reverse(fresh) \o kept]_vars

\* a pass has rendered three extensions in the reverse of the query order
C15_Witness ==
  /\ last = Ret("loadExtensions", <<"e1", "e2", "e3">>, "applied", FALSE)
  /\ C15_Ids(rendered) = <<"e3", "e2", "e1">>

\* the tooltip of an extension: only e1 exposes an action that can be invoked
C16_Tooltip(id, isActive) ==
  CASE isActive /\ id = "e1" -> <<"Open", id>>
    [] isActive /\ id # "e1" -> <<"Disable", id>>
    [] OTHER -> <<"Enable", id>>

\* C16: when a pass has run, the tooltip of every entry reads "Open" for an
\* active extension with an invocable action, "Disable" for an active one
\* without, a failed action lookup included, and "Enable" for an inactive one.
C16_TooltipPolicy ==
  (last.op = "loadExtensions" /\ last.res = "applied") =>
    \A i \in 1..Len(rendered) :
      rendered[i].tooltip = C16_Tooltip(rendered[i].id, rendered[i].id \in active)

\* a pass has rendered an active extension with an action, an active one
\* whose action lookup throws and a deactivated one without an action
C16_Witness ==
  /\ last.op = "loadExtensions" /\ last.res = "applied"
  /\ \E i, j, k \in 1..Len(rendered) :
       /\ rendered[i].tooltip = <<"Open", "e1">>
       /\ rendered[j].tooltip = <<"Disable", "e3">>
       /\ rendered[k].tooltip = <<"Enable", "e2">>

\* the status icon by priority: sharing, then permissions, then the scheme
C17_Icon(pg) ==
  CASE pg.sharing -> "shield-check.svg"
    [] ~pg.sharing /\ pg.perms -> "shield-exclamation.svg"
    [] ~pg.sharing /\ ~pg.perms /\ pg.scheme = "https" -> "security.svg"
    [] ~pg.sharing /\ ~pg.perms /\ pg.scheme = "http" -> "lock-open.svg"
    [] OTHER -> "info.svg"

\* C17: the refresh of the status icon in showPanel sets the icon by that
\* priority; without the status image or the identity box it leaves the icon
\* as it was; it throws nothing.
C17_IconByPriority ==
  [][(showPc = NULL /\ showPc' # NULL) =>
       /\ securityIcon' = IF page.img /\ page.box THEN C17_Icon(page)
                          ELSE securityIcon
       /\ ~last'.threw]_vars

\* the panel is being shown on a page without identity box and the warning
\* icon of the page before is left in place
C17_Witness ==
  /\ showPc # NULL
  /\ page.img /\ ~page.box /\ page.scheme = "https"
  /\ securityIcon = "shield-exclamation.svg"

\* C18: hidePanel() ends with the panel closed and no dismissal listener
\* registered, and calls hidePopup iff the panel was open; called on a closed
\* panel, right after another hidePanel() in particular, it changes nothing.
C18_HideIdempotent ==
  [][(last'.op = "hidePanel" /\ last' # last) =>
       /\ ~isOpen'
       /\ winListeners' = [pointerdown |-> 0, keydown |-> 0]
       /\ hidePopupCalled' <=> isOpen
       /\ (last.op = "hidePanel" \/ ~isOpen) =>
            /\ ~hidePopupCalled'
            /\ UNCHANGED <<isOpen, boundOnGlobalPointerDown, boundOnGlobalKeyDown,
                           winListeners, lastAnchorButton, panel, rendered,
                           pending, amListeners>>]_vars

\* hidePanel() was called on the panel that an earlier call had closed
C18_Witness ==
  /\ last = Ret("hidePanel", NULL, "noop", FALSE)
  /\ panel /\ lastAnchorButton # NULL
  /\ ~isOpen /\ ~hidePopupCalled

\* C19: with the panel open, an Escape key-down closes it and is stopped and
\* any other key-down leaves it open and is not stopped; with the panel
\* closed no keydown listener is registered and nothing is stopped.
C19_EscapeCloses ==
  [][(last'.op = "keydown" /\ last' # last) =>
       IF isOpen
       THEN /\ last'.arg = "Escape" => (~isOpen' /\ last'.res = "stopped")
            /\ last'.arg # "Escape" => (isOpen' /\ last'.res = "noop")
       ELSE /\ winListeners.keydown = 0
            /\ ~isOpen'
            /\ last'.res = "noop"]_vars

\* an Escape key-down has closed the panel and was stopped
C19_Witness ==
  /\ last = Ret("keydown", "Escape", "stopped", FALSE)
  /\ ~isOpen
  /\ winListeners.keydown = 0

\* C21: at most one add-on listener of the script is registered with the
\* AddonManager, and it is registered exactly while this.addonListener is set.
C21_OneAddonListener ==
  /\ amListeners <= 1
  /\ addonListener <=> amListeners = 1

\* a later show has opened the panel, whose entries an earlier show has
\* rendered, and one listener is registered
C21_Witness ==
  /\ last.op = "showPanel" /\ last.res = "opened"
  /\ Len(rendered) > 0
  /\ amListeners = 1

\* C23: the window holds at most one PanelManager, one DOM-ready listener, one
\* injected button and one click handler, however often the initializer runs
\* and DOM-ready fires.
C23_OneButton ==
  /\ win.managers <= 1
  /\ win.domListeners <= 1
  /\ win.buttons <= 1
  /\ win.clickHandlers <= 1

\* DOM-ready has fired again after the button was injected, and the panel has
\* been opened by a click on that button
C23_Witness ==
  /\ last = Ret("DOMContentLoaded", NULL, "skipped", FALSE)
  /\ win.buttons = 1 /\ win.clickHandlers = 1 /\ win.managers = 1
  /\ isOpen

\* C25: the click that follows a pointer-down on the anchor of the open panel
\* hides the panel and does not show it again: afterwards isOpen is false and
\* no dismissal listener is registered.
C25_AnchorClickCloses ==
  [][(/\ last.op = "pointerdown" /\ last.arg = "inButton"
      /\ lastAnchorButton = "button"
      /\ isOpen \/ last.res = "closed"
      /\ last'.op \in {"showPanel", "hidePanel"}) =>
       /\ isOpen
       /\ last' = Ret("hidePanel", NULL, "closed", FALSE)
       /\ ~isOpen'
       /\ showPc' = NULL
       /\ winListeners' = [pointerdown |-> 0, keydown |-> 0]]_vars

\* the pointer-down of a click on the anchor has left the panel open
C25_Witness ==
  /\ last = Ret("pointerdown", "inButton", "noop", FALSE)
  /\ lastAnchorButton = "button"
  /\ isOpen
  /\ win.clickHandlers = 1

\* C22: while the enable() or disable() that a click has started is in
\* flight, no reconciliation pass rewrites the entry of that extension.
C22_NoRerenderInFlight ==
  [][\A i \in 1..Len(tasks) :
       (/\ tasks[i].op = "toggleExtensionState"
        /\ tasks[i].stage = "toggling"
        /\ tasks' = tasks)
         => ~(/\ Len(pending') < Len(pending)
              /\ last'.res = "applied"
              /\ \E k \in 1..Len(last'.arg) : last'.arg[k] = tasks[i].id)]_vars

\* C24: when the primary strategy and the fallback strategy of clearCookies
\* have both failed, the handler has still reloaded the page, closed the
\* panel and thrown nothing.
C24_TotalFailureStillReloads ==
  (CookiesDone /\ last.arg.fallback = 1 /\ last.arg.fallbackFailed) =>
    (last.res = "reloaded" /\ ~isOpen /\ ~last.threw)

\* the non-system ids of a query result
C26_UserIds(addons) ==
  {addons[k] : k \in 1..Len(addons)} \ {"sys"}

\* C26: an add-on change while the panel is closed starts no pass and leaves
\* the rendered entries and the id-to-record mapping as they are; the pass
\* that the next show has started renders exactly the non-system extensions
\* its query has returned.
C26_ClosedNotificationsIgnored ==
  [][/\ ((installed' # installed \/ active' # active) /\ ~isOpen)
          => UNCHANGED <<pending, rendered, extensionData>>
     /\ \A i \in 1..Len(pending) :
          (/\ pending[i].cur /\ pending[i].st = "resolved"
           /\ pending' = SubSeq(pending, 1, i - 1) \o SubSeq(pending, i + 1, Len(pending))
           /\ last'.res = "applied")
            => /\ {rendered'[k].id : k \in 1..Len(rendered')} = C26_UserIds(pending[i].addons)
               /\ extensionData' = C26_UserIds(pending[i].addons)]_vars

\* an extension was uninstalled while the panel was closed: the listener is
\* registered, no pass was started and both entries are still rendered
C26_Witness ==
  /\ last.op = "host" /\ last.res = "uninstalled"
  /\ ~isOpen
  /\ amListeners = 1
  /\ pending = <<>>
  /\ Len(rendered) = 2

\* C27: when the last of the passes in flight has applied its patch with the
\* panel open, so that every add-on change since the show has had its pass,
\* the rendered entries are those of the installed non-system extensions.
C27_NoStaleRenderedSet ==
  [][(/\ isOpen
      /\ Len(pending) = 1 /\ pending' = <<>>
      /\ last'.res = "applied")
       => {rendered'[k].id : k \in 1..Len(rendered')}
            = C26_UserIds(installed')]_vars

====
